---- MODULE Spec2Model ----
(***************************************************************************)
(* Model of app.py: the materiality-map Dash application.                  *)
(*                                                                         *)
(* Text is a sequence of symbols.  A symbol is a one-character string      *)
(* (" ", "_", a letter, a digit) or an atom of several characters that no  *)
(* operation of the program ever cuts in two: a whole word of a label, the *)
(* line-break marker "<br>", a literal of the source.  The symbols of an   *)
(* upload's contents are records (see Sym).                                *)
(* Python's None is the record None; a str s is the record Str(s).         *)
(* A DataFrame is a record [cols, rows]; every row is a function from the  *)
(* table's columns to cell values.                                         *)
(***************************************************************************)
EXTENDS Integers, Sequences, FiniteSets, TLC

\* ------------------------------------------------------------------ bounds
MaxWords == 7
MaxCommas == 2
MaxSpaces == 1

\* ----------------------------------------------------------- str helpers
None == [isNone |-> TRUE, s |-> <<>>]
Str(s) == [isNone |-> FALSE, s |-> s]

\* truthiness of an Optional[str]: None and "" are falsy
Truthy(v) == ~v.isNone /\ v.s # <<>>

\* Python `v or dflt` for an Optional[str] v and a str dflt
OrElse(v, dflt) == IF Truthy(v) THEN v.s ELSE dflt

WS == {" "}

Min(a, b) == IF a < b THEN a ELSE b

\* str.replace(old, new) for one-symbol old and new
Replace(s, old, new) == [i \in 1..Len(s) |-> IF s[i] = old THEN new ELSE s[i]]

RECURSIVE SplitAcc(_, _, _, _)
SplitAcc(s, i, cur, acc) ==
  IF i > Len(s) THEN (IF cur = <<>> THEN acc ELSE Append(acc, cur))
  ELSE IF s[i] \in WS
       THEN SplitAcc(s, i + 1, <<>>, IF cur = <<>> THEN acc ELSE Append(acc, cur))
       ELSE SplitAcc(s, i + 1, Append(cur, s[i]), acc)

\* str.split(): split on runs of whitespace, no empty strings in the result
SplitWs(s) == SplitAcc(s, 1, <<>>, <<>>)

RECURSIVE SplitOnAcc(_, _, _, _, _)
SplitOnAcc(s, sep, i, cur, acc) ==
  IF i > Len(s) THEN Append(acc, cur)
  ELSE IF s[i] = sep
       THEN SplitOnAcc(s, sep, i + 1, <<>>, Append(acc, cur))
       ELSE SplitOnAcc(s, sep, i + 1, Append(cur, s[i]), acc)

\* str.split(sep): split on every occurrence of sep, empty strings kept
SplitOn(s, sep) == SplitOnAcc(s, sep, 1, <<>>, <<>>)

RECURSIVE Join(_, _)
\* sep.join(parts)
Join(parts, sep) ==
  IF parts = <<>> THEN <<>>
  ELSE IF Len(parts) = 1 THEN parts[1]
  ELSE parts[1] \o sep \o Join(Tail(parts), sep)

\* str.lower() on the letters the model's names use
LowerSym(ch) ==
  CASE ch = "A" -> "a"
    [] ch = "C" -> "c"
    [] OTHER -> ch

Lower(s) == [i \in 1..Len(s) |-> LowerSym(s[i])]

DigitSym(d) == <<"0", "1", "2", "3", "4", "5", "6", "7", "8", "9">>[d + 1]

RECURSIVE ZeroPad(_, _)
\* the decimal digits of n, zero-padded to width w
ZeroPad(n, w) == IF w = 0 THEN <<>> ELSE Append(ZeroPad(n \div 10, w - 1), DigitSym(n % 10))

\* datetime.strftime('%Y%m%d')
strftime(d) == ZeroPad(d.year, 4) \o ZeroPad(d.month, 2) \o ZeroPad(d.day, 2)

\* ------------------------------------------------------------ DataFrames
required_cols == {"Name of IRO", "Impact", "Risk", "Sub-Topic"}

Cell(c, name, impact, risk, sub) ==
  CASE c = "Name of IRO" -> name
    [] c = "Impact" -> impact
    [] c = "Risk" -> risk
    [] c = "Sub-Topic" -> sub
    [] OTHER -> "n/a"

MkRow(cols, name, impact, risk, sub) == [c \in cols |-> Cell(c, name, impact, risk, sub)]

FbRow(name, impact, risk, sub) == MkRow(required_cols, name, impact, risk, <<sub>>)

fallback_data ==
  [cols |-> required_cols,
   rows |-> << FbRow("Energy Efficiency", 4, 5, "Environmental"),
               FbRow("Water Use", 3, 2, "Environmental"),
               FbRow("Labor Practices", 5, 4, "Social"),
               FbRow("GHG Emissions", 5, 5, "Environmental"),
               FbRow("Diversity & Inclusion", 2, 3, "Social"),
               FbRow("Product Safety", 4, 3, "Social"),
               FbRow("Supply Chain Ethics", 3, 2, "Social"),
               FbRow("Board Independence", 1, 1, "Governance"),
               FbRow("Climate Risk Strategy", 5, 5, "Environmental"),
               FbRow("Customer Privacy", 2, 4, "Governance") >>]

\* DataFrame.empty: some axis has length 0
IsEmpty(df) == df.rows = <<>> \/ df.cols = {}

NoTable == [cols |-> {}, rows |-> <<>>]

\* -------------------------------------------------------- generate_figure
\* lines of n words, joined by "<br>"
WrapWords(words, n) ==
  Join([k \in 1..((Len(words) + n - 1) \div n) |->
          Join(SubSeq(words, n * (k - 1) + 1, Min(n * k, Len(words))), <<" ">>)],
       <<"<br>">>)

wrap_label_drop_underscore(text) == WrapWords(SplitWs(text), 4)

wrap_label_five(text) == WrapWords(SplitWs(Replace(text, "_", " ")), 5)

wrap_label(text) == WrapWords(SplitWs(Replace(text, "_", " ")), 4)

\* df["Sub-Topic"] = df["Sub-Topic"].apply(wrap_label): the caller's table
\* is rewritten in place
ApplyWrap(df) ==
  IF "Sub-Topic" \in df.cols
  THEN [df EXCEPT !.rows = [i \in 1..Len(df.rows) |->
                              [df.rows[i] EXCEPT !["Sub-Topic"] = wrap_label(@)]]]
  ELSE df

title_text(company_name) ==
  IF company_name # <<>>
  THEN <<"<b>">> \o company_name \o <<" : Double Materiality Map</b>">>
  ELSE <<"<b>Double Materiality Map</b>">>

RECURSIVE Uniq(_, _)
\* the distinct values of a sequence in order of first appearance
Uniq(s, seen) ==
  IF s = <<>> THEN <<>>
  ELSE IF Head(s) \in seen THEN Uniq(Tail(s), seen)
  ELSE <<Head(s)>> \o Uniq(Tail(s), seen \cup {Head(s)})

\* px.scatter(df, x="Risk", y="Impact", color="Sub-Topic", ...): one trace
\* per distinct Sub-Topic value, in order of first appearance
TracesNamed(labels, names) ==
  [t \in 1..Len(names) |->
     [name |-> names[t],
      points |-> Cardinality({i \in 1..Len(labels) : labels[i] = names[t]})]]

TracesOf(labels) == TracesNamed(labels, Uniq(labels, {}))

Traces(df) == TracesOf([i \in 1..Len(df.rows) |-> df.rows[i]["Sub-Topic"]])

\* axis ranges in tenths: [0, 5.1]
AxisRange == <<0, 51>>

\* px.scatter(title=...) with no data
TitleOnly(title) == [title |-> title, xrange |-> <<>>, yrange |-> <<>>, traces |-> <<>>]

NoFigure == TitleOnly(<<>>)

\* the result is the chart and the caller's table as the call leaves it
Scatter(out, company_name) ==
  [df |-> out,
   fig |-> [title |-> title_text(company_name),
            xrange |-> AxisRange, yrange |-> AxisRange,
            traces |-> Traces(out)]]

generate_figure(df, company_name) == Scatter(ApplyWrap(df), company_name)

\* ------------------------------------------------- the inputs of the model
Words == <<"Climate", "Risk", "Strategy", "And", "Governance", "Topics",
           "Seven", "Eight", "Nine", "Ten">>

SepOf(kind, i) ==
  CASE kind = "space" -> <<" ">>
    [] kind = "underscore" -> <<"_">>
    [] kind = "mixed" -> (IF i = 1 THEN <<"_">> ELSE <<" ">>)
    [] kind = "double" -> <<" ", " ">>
    [] kind = "break" -> (IF i = 1 THEN <<"<br>">> ELSE <<" ">>)

RECURSIVE MkLabel(_, _)
\* the first n words, the i-th and (i+1)-th separated by SepOf(kind, i)
MkLabel(n, kind) ==
  IF n = 0 THEN <<>>
  ELSE IF n = 1 THEN <<Words[1]>>
  ELSE MkLabel(n - 1, kind) \o SepOf(kind, n - 1) \o <<Words[n]>>

Labels ==
  {MkLabel(n, "space") : n \in 0..MaxWords}
    \cup {MkLabel(n, k) : n \in {2, 6, MaxWords}, k \in {"underscore", "mixed"}}
    \cup {MkLabel(2, "double"), MkLabel(2, "break"), MkLabel(6, "break")}

Row(cols, sub) == MkRow(cols, "Item", 3, 2, sub)

Table(cols, subs) == [cols |-> cols, rows |-> [i \in 1..Len(subs) |-> Row(cols, subs[i])]]

\* what data/Materiality_Template.xlsx can be when the module is imported
TemplateTables ==
  {Table(required_cols, <<l>>) : l \in Labels}
    \cup {Table(required_cols \cup {"Notes"}, <<MkLabel(n, "underscore"), MkLabel(2, "space")>>) :
            n \in {2, 6}}
    \cup {Table(required_cols, <<>>),
          Table(required_cols \ {"Risk"}, <<MkLabel(1, "space")>>)}

Templates ==
  {[status |-> "absent", table |-> NoTable], [status |-> "unreadable", table |-> NoTable]}
    \cup {[status |-> "ok", table |-> t] : t \in TemplateTables}

Spaces(k) == [i \in 1..k |-> " "]

AcmeCorp == <<"A", "c", "m", "e", " ", "C", "o", "r", "p">>

Companies == {None, Str(AcmeCorp)} \cup {Str(Spaces(k)) : k \in 0..MaxSpaces}

\* datetime.now() on the day of the export
Dates == {[year |-> 2024, month |-> 3, day |-> 15]}

\* the uploaded spreadsheets: all four required columns, or some of them
\* missing; each with a six-word label and a one-word label
UploadCols ==
  {required_cols, required_cols \ {"Risk"}, {}}

UploadSheets == {Table(cols \cup {"Notes"}, <<MkLabel(6, "underscore"), <<"Social">>>>) :
                   cols \in UploadCols}

\* a symbol of an upload's contents: its text and, for the base64 text of a
\* whole file, the file it encodes
NoFile == [xlsx |-> FALSE, table |-> NoTable]

Sym(k) == [key |-> k, file |-> NoFile]

Comma == Sym(",")

Header == "data:application/vnd.ms-excel;base64"

\* base64 payloads: a text whose length is no multiple of 4, the encoding of
\* a plain-text file, and the encoding of each spreadsheet
BadPadding == "abc"

PlainText == "dGV4dA=="

Payloads ==
  {<<Sym(BadPadding)>>, <<Sym(PlainText)>>}
    \cup {<<[key |-> "UEsDBBQA", file |-> [xlsx |-> TRUE, table |-> t]]>> : t \in UploadSheets}

RECURSIVE WithCommas(_, _)
\* the header followed by k pieces ",<payload>"
WithCommas(k, p) == IF k = 0 THEN <<Sym(Header)>> ELSE WithCommas(k - 1, p) \o <<Comma>> \o p

ContentsSet ==
  {None} \cup {Str(WithCommas(1, p)) : p \in Payloads}
         \cup {Str(WithCommas(k, <<Sym(PlainText)>>)) : k \in (0..MaxCommas) \ {1}}

\* ---------------------------------------------------------- module start-up
\* pd.read_excel(TEMPLATE_PATH): raises when the file is absent or is no
\* spreadsheet
ReadTemplate(t) ==
  IF t.status = "ok" THEN [raised |-> FALSE, df |-> t.table]
  ELSE [raised |-> TRUE, df |-> NoTable]

LoadDefault_no_empty_check(t) ==
  LET r == ReadTemplate(t)
  IN IF r.raised THEN fallback_data
     ELSE IF ~(required_cols \subseteq r.df.cols) THEN fallback_data
     ELSE r.df

\* the try/except that binds df_default
LoadDefault(t) ==
  LET r == ReadTemplate(t)
  IN IF r.raised THEN fallback_data
     ELSE IF IsEmpty(r.df) \/ ~(required_cols \subseteq r.df.cols) THEN fallback_data
     ELSE r.df

\* ------------------------------------------------------------ the callbacks
\* base64.b64decode: binascii.Error on a text of the wrong length; the
\* bytes are the file the text encodes
b64decode(s) ==
  IF \E i \in 1..Len(s) : s[i].key = BadPadding
  THEN [raised |-> TRUE, file |-> NoFile]
  ELSE IF Len(s) = 1 THEN [raised |-> FALSE, file |-> s[1].file]
  ELSE [raised |-> FALSE, file |-> NoFile]

\* pd.read_excel(io.BytesIO(decoded))
read_excel(file) ==
  IF file.xlsx THEN [raised |-> FALSE, df |-> file.table]
  ELSE [raised |-> TRUE, df |-> NoTable]

MissingTitle ==
  <<"Missing required columns: ", "Name of IRO", ", ", "Impact", ", ", "Risk", ", ", "Sub-Topic">>

ErrorTitle == <<"Error reading file: ", "File is not a recognized excel file">>

Raise(dfd) == [raised |-> TRUE, fig |-> NoFigure, df_default |-> dfd]

Return(f, dfd) == [raised |-> FALSE, fig |-> f, df_default |-> dfd]

FromDefault(r) == Return(r.fig, r.df)

\* lines 251-257, x being the result of pd.read_excel
Parsed(x, company_name, dfd) ==
  IF x.raised THEN Return(TitleOnly(ErrorTitle), dfd)
  ELSE IF ~(required_cols \subseteq x.df.cols) THEN Return(TitleOnly(MissingTitle), dfd)
  ELSE Return(generate_figure(x.df, OrElse(company_name, <<>>)).fig, dfd)

\* lines 249-257
Decoded(decoded, company_name, dfd) ==
  IF decoded.raised THEN Raise(dfd)
  ELSE Parsed(read_excel(decoded.file), company_name, dfd)

\* content_type, content_string = contents.split(','): ValueError unless
\* the split has exactly two parts
Unpacked(parts, company_name, dfd) ==
  IF Len(parts) # 2 THEN Raise(dfd)
  ELSE Decoded(b64decode(parts[2]), company_name, dfd)

\* update_graph keeping the uploaded table as the new default
RetainUpload(r, parts) ==
  IF r.raised \/ r.fig.xrange # AxisRange THEN r
  ELSE [r EXCEPT !.df_default = ApplyWrap(read_excel(b64decode(parts[2]).file).df)]

update_graph_retain_upload(contents, company_name, dfd) ==
  IF contents.isNone
  THEN FromDefault(generate_figure(dfd, OrElse(company_name, <<>>)))
  ELSE RetainUpload(Unpacked(SplitOn(contents.s, Comma), company_name, dfd),
                    SplitOn(contents.s, Comma))

\* the result is what the callback returns, or that it raised, and
\* df_default as the call leaves it
update_graph(contents, company_name, dfd) ==
  IF contents.isNone
  THEN FromDefault(generate_figure(dfd, OrElse(company_name, <<>>)))
  ELSE Unpacked(SplitOn(contents.s, Comma), company_name, dfd)

Filename(company_name, today) ==
  <<"materiality_map_">>
    \o Replace(Lower(OrElse(company_name, <<"c", "o", "m", "p", "a", "n", "y">>)), " ", "_")
    \o <<"_">> \o strftime(today) \o <<".png">>

NoDownload == [filename |-> <<>>, fig |-> NoFigure]

download_chart_on_screen(company_name, today, dfd, shown) ==
  [data |-> [filename |-> Filename(company_name, today), fig |-> shown],
   df_default |-> dfd]

\* the result is the download and df_default as the call leaves it; shown
\* is the figure on the screen, which the callback does not receive
SendBytes(r, filename) == [data |-> [filename |-> filename, fig |-> r.fig], df_default |-> r.df]

download_chart(company_name, today, dfd, shown) ==
  SendBytes(generate_figure(dfd, OrElse(company_name, <<>>)), Filename(company_name, today))

\* ------------------------------------------------------------------- state
VARIABLES
  pc,            \* where the import of the module stands: "load" (line 36),
                 \* "layout" (line 229), "test" (line 271), "serving"
  template,      \* the template file on disk
  df_default,    \* the module global
  scatter_plot,  \* the figure of dcc.Graph 'scatter-plot'
  test_fig,      \* the module global
  download,      \* the data of dcc.Download 'download-fig'
  request,       \* the callback invocation handled last
  raised         \* the callback handled last ended by raising

vars == <<pc, template, df_default, scatter_plot, test_fig, download, request, raised>>

NoRequest == [kind |-> "none", contents |-> None, company_name |-> None, today |-> [year |-> 0, month |-> 0, day |-> 0]]

Init ==
  /\ pc = "load"
  /\ template \in Templates
  /\ df_default = NoTable
  /\ scatter_plot = NoFigure
  /\ test_fig = NoFigure
  /\ download = NoDownload
  /\ request = NoRequest
  /\ raised = FALSE

\* lines 36-42
LoadTemplate ==
  /\ pc = "load"
  /\ df_default' = LoadDefault(template)
  /\ pc' = "layout"
  /\ UNCHANGED <<template, scatter_plot, test_fig, download, request, raised>>

\* line 229: figure=generate_figure(df_default)
BuildLayout ==
  /\ pc = "layout"
  /\ \E r \in {generate_figure(df_default, <<>>)} :
       /\ scatter_plot' = r.fig
       /\ df_default' = r.df
  /\ pc' = "test"
  /\ UNCHANGED <<template, test_fig, download, request, raised>>

\* line 271: test_fig = generate_figure(df_default)
TestFig ==
  /\ pc = "test"
  /\ \E r \in {generate_figure(df_default, <<>>)} :
       /\ test_fig' = r.fig
       /\ df_default' = r.df
  /\ pc' = "serving"
  /\ UNCHANGED <<template, scatter_plot, download, request, raised>>

\* a render request; a callback that raises updates no output
Render(contents, company_name) ==
  \E r \in {update_graph(contents, company_name, df_default)} :
     /\ request' = [kind |-> "render", contents |-> contents,
                    company_name |-> company_name, today |-> NoRequest.today]
     /\ raised' = r.raised
     /\ scatter_plot' = IF r.raised THEN scatter_plot ELSE r.fig
     /\ df_default' = r.df_default
     /\ UNCHANGED <<pc, template, test_fig, download>>

UpdateGraph ==
  /\ pc = "serving"
  /\ \E contents \in ContentsSet, company_name \in Companies : Render(contents, company_name)

\* a render request while no file is uploaded
UpdateGraphNoFile ==
  /\ pc = "serving"
  /\ \E company_name \in Companies : Render(None, company_name)

\* an export request
DownloadChart ==
  /\ pc = "serving"
  /\ \E company_name \in Companies, today \in Dates :
       \E r \in {download_chart(company_name, today, df_default, scatter_plot)} :
          /\ request' = [kind |-> "export", contents |-> None,
                         company_name |-> company_name, today |-> today]
          /\ raised' = FALSE
          /\ download' = r.data
          /\ df_default' = r.df_default
  /\ UNCHANGED <<pc, template, scatter_plot, test_fig>>

Next == LoadTemplate \/ BuildLayout \/ TestFig \/ UpdateGraph \/ DownloadChart

Spec == Init /\ [][Next]_vars

\* the requests of a browser that never uploads a file
NoFileNext == LoadTemplate \/ BuildLayout \/ TestFig \/ UpdateGraphNoFile \/ DownloadChart

\* the import of the module runs to its end: each of its three steps moves
\* pc on; requests arrive as they please
ImportStep ==
  /\ pc # "serving"
  /\ pc' = (IF pc = "load" THEN "layout" ELSE IF pc = "layout" THEN "test" ELSE "serving")

NoFileSpec == Init /\ [][NoFileNext]_vars /\ WF_pc(ImportStep)

\* ------------------------------------------------------------ the claims
SubTopic(df, i) == df.rows[i]["Sub-Topic"]

\* the step calls generate_figure(df_default, ...)
DefaultCall ==
  \/ pc \in {"layout", "test"} /\ pc' # pc
  \/ pc = "serving" /\ request'.kind = "export"
  \/ pc = "serving" /\ request'.kind = "render" /\ request'.contents.isNone

\* the table an upload's contents hold once split, decoded and parsed
Uploaded(contents) ==
  LET parts == SplitOn(contents.s, Comma)
  IN IF contents.isNone \/ Len(parts) # 2 THEN [raised |-> TRUE, df |-> NoTable]
     ELSE read_excel(b64decode(parts[2]).file)

IsMap(fig) == fig.xrange = AxisRange

\* C1: two successive calls of generate_figure on the same dataset with the
\* same company name give the same chart: line 271 repeats the call of
\* line 229, and a no-file render request repeats the one before it.
C1_TwiceIdentical ==
  [][/\ (pc = "test" /\ pc' = "serving") => test_fig' = scatter_plot
     /\ (request.kind = "render" /\ request.contents.isNone /\ request' = request)
          => scatter_plot' = scatter_plot]_vars

\* C2: once the module is imported, no request changes df_default.
C2_DefaultImmutable == [][pc = "serving" => df_default' = df_default]_vars

\* C3: a render request with an upload never ends by raising.
C3_NeverRaises == (request.kind = "render" /\ ~request.contents.isNone) => ~raised

Missing(df) == required_cols \ df.cols

Listed(title) == {title[i] : i \in 1..Len(title)} \cap required_cols

\* C4: for an upload that parses and lacks the required columns M # {}, the
\* title starts with "Missing required columns" and lists exactly M.
C4_ListsExactlyMissing ==
  (request.kind = "render" /\ ~raised /\ ~Uploaded(request.contents).raised
     /\ Missing(Uploaded(request.contents).df) # {})
    => /\ scatter_plot.title[1] = "Missing required columns: "
       /\ Listed(scatter_plot.title) = Missing(Uploaded(request.contents).df)

C6_UploadNotRetained ==
  [][(request'.kind = "render" /\ ~request'.contents.isNone)
       => UNCHANGED <<df_default, test_fig, template, pc, download>>]_vars

C6_Witness ==
  /\ request.kind = "render"
  /\ ~Uploaded(request.contents).raised
  /\ Missing(Uploaded(request.contents).df) = {}
  /\ IsMap(scatter_plot)
  /\ scatter_plot.traces # Traces(df_default)

Blank(v) == v.isNone \/ \A i \in 1..Len(v.s) : v.s[i] = " "

Slug(v) ==
  IF Blank(v) THEN <<"c", "o", "m", "p", "a", "n", "y">>
  ELSE [i \in 1..Len(v.s) |-> IF v.s[i] = " " THEN "_" ELSE LowerSym(v.s[i])]

DateText(d) ==
  <<DigitSym(d.year \div 1000), DigitSym((d.year \div 100) % 10), DigitSym((d.year \div 10) % 10),
    DigitSym(d.year % 10), DigitSym(d.month \div 10), DigitSym(d.month % 10),
    DigitSym(d.day \div 10), DigitSym(d.day % 10)>>

\* C7: the download is named materiality_map_<slug>_<YYYYMMDD>.png, the slug
\* being "company" for a blank name (None, "", only spaces).
C7_Filename ==
  request.kind = "export"
    => download.filename =
         <<"materiality_map_">> \o Slug(request.company_name) \o <<"_">>
           \o DateText(request.today) \o <<".png">>

TemplateUsable ==
  /\ template.status = "ok"
  /\ template.table.rows # <<>>
  /\ required_cols \subseteq template.table.cols

\* C8: df_default is bound to the template's table when the template is
\* there, readable, non-empty and has the four columns, and to the fallback
\* otherwise; from then on it has a row and the four columns.
C8_DefaultUsable ==
  /\ pc = "layout" => df_default = (IF TemplateUsable THEN template.table ELSE fallback_data)
  /\ pc # "load" => (Len(df_default.rows) >= 1 /\ required_cols \subseteq df_default.cols)

C8_Witness ==
  /\ pc = "serving"
  /\ template.status = "ok"
  /\ template.table.rows = <<>>
  /\ required_cols \subseteq template.table.cols
  /\ Len(df_default.rows) = 10

\* the lines of a rendered label; a label without text has none
LinesOf(text) == IF text = <<>> THEN <<>> ELSE SplitOn(text, "<br>")

RECURSIVE Flatten(_)
Flatten(ss) == IF ss = <<>> THEN <<>> ELSE Head(ss) \o Flatten(Tail(ss))

WrapsByFour(in, out) ==
  LET lines == [k \in 1..Len(LinesOf(out)) |-> SplitWs(LinesOf(out)[k])]
  IN /\ Flatten(lines) = SplitWs(Replace(in, "_", " "))
     /\ \A k \in 1..Len(lines) :
          IF k < Len(lines) THEN Len(lines[k]) = 4 ELSE Len(lines[k]) \in 1..4

HasBreak(text) == \E i \in 1..Len(text) : text[i] = "<br>"

\* C9 as stated: every call of generate_figure turns every label into its
\* words, in order, on lines of exactly 4 words, the last of 1 to 4.
C9_WrapsEveryLabel ==
  [][DefaultCall =>
       \A i \in 1..Len(df_default.rows) :
         WrapsByFour(SubTopic(df_default, i), SubTopic(df_default', i))]_vars

\* C9: a call of generate_figure turns every label that holds no "<br>" into
\* its words, in order, on lines of exactly 4 words, the last of 1 to 4.
C9_WrapsFreshLabel ==
  [][DefaultCall =>
       \A i \in 1..Len(df_default.rows) :
         ~HasBreak(SubTopic(df_default, i))
           => WrapsByFour(SubTopic(df_default, i), SubTopic(df_default', i))]_vars

C9_Witness ==
  /\ pc = "test"
  /\ TemplateUsable
  /\ SubTopic(template.table, 1) = MkLabel(6, "underscore")
  /\ SubTopic(df_default, 1) =
       <<"Climate", " ", "Risk", " ", "Strategy", " ", "And", "<br>", "Governance", " ", "Topics">>

NoUnderscore(text) == \A i \in 1..Len(text) : text[i] # "_"

FixedShape(text) ==
  /\ NoUnderscore(text)
  /\ Len(SplitWs(text)) <= 4
  /\ text = Join(SplitWs(text), <<" ">>)

\* C10 as stated: a call leaves a label as it is exactly when the label has
\* no underscore and at most 4 single-spaced tokens, a call on a label of
\* more than 4 tokens lowers its token count, and df_default is eventually
\* constant.
C10_EveryLongLabelShrinks ==
  /\ [][DefaultCall =>
          \A i \in 1..Len(df_default.rows) :
            LET old == SubTopic(df_default, i)
                new == SubTopic(df_default', i)
            IN /\ (new = old) <=> FixedShape(old)
               /\ Len(SplitWs(old)) > 4 => Len(SplitWs(new)) < Len(SplitWs(old))]_vars
  /\ <>[][df_default' = df_default]_vars

\* C10: a call leaves a label as it is exactly when the label has no
\* underscore and at most 4 single-spaced tokens, a call on a label of more
\* than 4 tokens and no underscore lowers its token count, and df_default
\* is eventually constant.
C10_Converges ==
  /\ [][DefaultCall =>
          \A i \in 1..Len(df_default.rows) :
            LET old == SubTopic(df_default, i)
                new == SubTopic(df_default', i)
            IN /\ (new = old) <=> FixedShape(old)
               /\ (NoUnderscore(old) /\ Len(SplitWs(old)) > 4)
                    => Len(SplitWs(new)) < Len(SplitWs(old))]_vars
  /\ <>[][df_default' = df_default]_vars

C10_Witness ==
  /\ pc = "serving"
  /\ request.kind = "export"
  /\ TemplateUsable
  /\ Len(SplitWs(SubTopic(template.table, 1))) = 7
  /\ Len(SplitWs(SubTopic(df_default, 1))) = 4
  /\ FixedShape(SubTopic(df_default, 1))

====
